---------------------------- MODULE Spec2Model ----------------------------
(***************************************************************************)
(* Model of thoth.lab.adviser: the justification deduplication             *)
(* (create_final_dataframe) and the frequency aggregation                  *)
(* (create_adviser_results_histogram, _aggregate_data_per_interval).       *)
(*                                                                         *)
(* A string is a sequence of code points, a bytes object a sequence of     *)
(* byte values, a data frame a sequence of rows in row order.  A           *)
(* datetime64[ns] value is the integer it holds.                           *)
(***************************************************************************)
EXTENDS Integers, Sequences, FiniteSets, TLC

VARIABLES
    pc,                 \* which call has run: "input", "classified", ...
    sha256,             \* hashlib.sha256(..).hexdigest(): bytes -> hex string
    adviser_dataframe,  \* the frame handed to create_final_dataframe
    final_dataframe,    \* the frame create_final_dataframe returns
    intervals,          \* argument of _aggregate_data_per_interval
    aggregated_data,    \* the dict _aggregate_data_per_interval returns
    subset_df,          \* per key of aggregated_data: low and the rows selected
    justifications_df,  \* the table create_adviser_results_histogram returns
    raised,             \* the exception the call ended with, or "none"
    heatmap_types,      \* the order in which set(advise_encoded_type) was iterated
    heatmaps_values,    \* the list _create_heatmaps_values returns
    df_heatmap,         \* the table create_adviser_heatmap builds from it
    store,              \* the documents of the result store, in listing order
    limit_results,      \* argument of aggregate_adviser_results
    max_ids,            \* argument of aggregate_adviser_results
    processed,          \* documents the loop of aggregate_adviser_results went through
    retrieved,          \* the ids passed to retrieve_document, in call order
    current_a_counter,  \* local of aggregate_adviser_results
    adviser_dict,       \* local of aggregate_adviser_results
    adviser_df,         \* the table aggregate_adviser_results returns
    store_calls,        \* the operations invoked on the result stores
    inspection_store,   \* the documents of the inspection store, by id
    inspection_identifiers,  \* argument of filter_inspection_ids
    inspection_ids,     \* the dict filter_inspection_ids returns
    identifier_inspection,   \* argument of aggregate_inspection_results_per_identifier
    identifier_index,   \* identifiers its outer loop has started
    inspection_results_dict, \* the dict it builds and returns
    inspection_df       \* what process_inspection_results returns

heatmap_vars == <<heatmap_types, heatmaps_values, df_heatmap>>

adviser_vars == <<store, limit_results, max_ids, processed, retrieved, current_a_counter,
                  adviser_dict, adviser_df>>

inspection_run_vars == <<inspection_store, inspection_identifiers, inspection_ids,
                         identifier_inspection, identifier_index, inspection_results_dict,
                         inspection_df>>

inspection_vars == <<store_calls, inspection_run_vars>>

vars == <<pc, sha256, adviser_dataframe, final_dataframe, intervals,
          aggregated_data, subset_df, justifications_df, raised,
          heatmap_vars, adviser_vars, inspection_vars>>

aggregator_vars == <<intervals, aggregated_data, subset_df, justifications_df, raised>>

\* No heatmap built, no run of aggregate_adviser_results.
NoTable == [index |-> <<>>, values |-> <<>>]

HeatmapIdle == heatmap_types = <<>> /\ heatmaps_values = <<>> /\ df_heatmap = NoTable

\* process_inspection_results not called.
NothingReturned == [returned |-> "nothing", rows |-> <<>>]

\* No inspection store in use.
InspectionIdle ==
    /\ inspection_store = <<>>
    /\ inspection_identifiers = <<>>
    /\ inspection_ids = <<>>
    /\ identifier_inspection = <<>>
    /\ identifier_index = 0
    /\ inspection_results_dict = <<>>
    /\ inspection_df = NothingReturned

AdviserIdle ==
    /\ store = <<>>
    /\ limit_results = FALSE
    /\ max_ids = 0
    /\ processed = 0
    /\ retrieved = <<>>
    /\ current_a_counter = 0
    /\ adviser_dict = <<>>
    /\ adviser_df = <<>>

(***************************************************************************)
(* Bounds of the model.                                                    *)
(***************************************************************************)
MaxRows == 3

MaxDate == 3

MaxIntervals == 3

MaxDocs == 3

MaxIds == 2

(***************************************************************************)
(* Helpers.                                                                *)
(***************************************************************************)
Range(f) == {f[x] : x \in DOMAIN f}

Min(a, b) == IF a <= b THEN a ELSE b

\* Python's order on str (and numpy's on '<U' arrays): code point by code
\* point, a proper prefix first.
LexLess(a, b) ==
    \E i \in 1..(Min(Len(a), Len(b)) + 1) :
        /\ \A j \in 1..(i - 1) : a[j] = b[j]
        /\ IF i > Len(a) THEN i <= Len(b)
           ELSE i <= Len(b) /\ a[i] < b[i]

(***************************************************************************)
(* Sample messages.  "A", "B", the empty message, U+0100 (a code point     *)
(* above Latin-1) and the six characters backslash u 0 1 0 0.              *)
(***************************************************************************)
Messages ==
    { <<>>, <<65>>, <<66>>, <<256>>, <<92, 117, 48, 49, 48, 48>> }

(***************************************************************************)
(* bytes(message, "raw_unicode_escape"): a code point below 0x100 is the   *)
(* byte itself, one up to 0xFFFF is backslash u and four lowercase hex     *)
(* digits, one above is backslash U and eight.                             *)
(***************************************************************************)
HexDigit(n) == IF n < 10 THEN 48 + n ELSE 87 + n

RECURSIVE HexDigits(_, _)
HexDigits(n, width) ==
    IF width = 0 THEN <<>>
    ELSE Append(HexDigits(n \div 16, width - 1), HexDigit(n % 16))

EscapeCodePoint(ch) ==
    IF ch < 256 THEN <<ch>>
    ELSE IF ch >= 65536 THEN <<92, 85>> \o HexDigits(ch, 8)
    ELSE <<92, 117>> \o HexDigits(ch, 4)

RECURSIVE raw_unicode_escape(_)
raw_unicode_escape(message) ==
    IF message = <<>> THEN <<>>
    ELSE EscapeCodePoint(Head(message)) \o raw_unicode_escape(Tail(message))

\* The byte strings the sample messages encode to, and sample hex digests
\* ("99", "9a", "a9", "aa"): sha256 is some injection between them.
ByteStrings == { raw_unicode_escape(m) : m \in Messages }

HexDigests == { <<57, 57>>, <<57, 97>>, <<97, 57>>, <<97, 97>> }

Injections(S, T) ==
    { f \in [S -> T] : \A x, y \in S : f[x] = f[y] => x = y }

(***************************************************************************)
(* sklearn's LabelEncoder.fit_transform: classes_ is the sorted unique     *)
(* values, and each value is replaced by its position in classes_.         *)
(***************************************************************************)
RECURSIVE SortedUnique(_)
SortedUnique(S) ==
    IF S = {} THEN <<>>
    ELSE LET least == CHOOSE x \in S : \A y \in S \ {x} : LexLess(x, y)
         IN  <<least>> \o SortedUnique(S \ {least})

PositionIn(classes, v) == CHOOSE k \in 1..Len(classes) : classes[k] = v

FirstSeenTransform(values) ==
    [i \in DOMAIN values |->
        Cardinality({values[j] : j \in 1..(CHOOSE k \in 1..i : values[k] = values[i])}) - 1]

fit_transform(values) ==
    LET classes == SortedUnique(Range(values))
    IN  [i \in DOMAIN values |-> PositionIn(classes, values[i]) - 1]

(***************************************************************************)
(* create_final_dataframe: hash every row's message, label-encode the hex  *)
(* digests and add them as column jm_hash_id_encoded.                      *)
(***************************************************************************)
\* The digest of the message's ASCII characters only.
ascii_ignore_hex_dig(row) ==
    sha256[raw_unicode_escape(SelectSeq(row.message, LAMBDA c : c < 128))]

hex_dig(row) == sha256[raw_unicode_escape(row.message)]

jm_encoding(df) == [i \in DOMAIN df |-> <<df[i].ids, df[i].message, hex_dig(df[i])>>]

\* The frame reduced to the first row of every class id.
one_row_per_class(df) ==
    LET encoded == fit_transform([i \in DOMAIN df |-> jm_encoding(df)[i][3]])
        rows == [i \in DOMAIN df |->
                    [ids |-> df[i].ids, message |-> df[i].message,
                     type |-> df[i].type, date |-> df[i].date,
                     jm_hash_id_encoded |-> encoded[i]]]
        IsFirst(i) == \A j \in 1..(i - 1) : encoded[j] # encoded[i]
        kept == { i \in DOMAIN df : IsFirst(i) }
        nth(k) == CHOOSE i \in kept : Cardinality({ j \in kept : j < i }) = k - 1
    IN  [k \in 1..Cardinality(kept) |-> rows[nth(k)]]

create_final_dataframe(df) ==
    LET jm_hash_id_values == [i \in DOMAIN df |-> jm_encoding(df)[i][3]]
        encoded == fit_transform(jm_hash_id_values)
    IN  [i \in DOMAIN df |->
            [ids |-> df[i].ids, message |-> df[i].message,
             type |-> df[i].type, date |-> df[i].date,
             jm_hash_id_encoded |-> encoded[i]]]

(***************************************************************************)
(* Input frames: one row per document id, in row order.                    *)
(***************************************************************************)
Row(i, m, d) == [ids |-> i, message |-> m, type |-> "INFO", date |-> d]

FrameOf(msgs) == [i \in DOMAIN msgs |-> Row(i, msgs[i], 0)]

MessageBatches == UNION { [1..n -> Messages] : n \in 1..MaxRows }

InitDedup ==
    /\ pc = "input"
    /\ sha256 \in Injections(ByteStrings, HexDigests)
    /\ adviser_dataframe \in { FrameOf(b) : b \in MessageBatches }
    /\ final_dataframe = <<>>
    /\ intervals = 0
    /\ aggregated_data = [keys |-> <<>>, items |-> <<>>]
    /\ subset_df = <<>>
    /\ justifications_df = <<>>
    /\ raised = "none"
    /\ HeatmapIdle
    /\ AdviserIdle
    /\ store_calls = {}
    /\ InspectionIdle

CreateFinalDataframe ==
    /\ pc = "input"
    /\ final_dataframe' = create_final_dataframe(adviser_dataframe)
    /\ pc' = "classified"
    /\ UNCHANGED <<heatmap_vars, adviser_vars, inspection_vars, sha256, adviser_dataframe, aggregator_vars>>

NextDedup == CreateFinalDataframe

SpecDedup == InitDedup /\ [][NextDedup]_vars


(***************************************************************************)
(* Properties of create_final_dataframe.                                   *)
(***************************************************************************)
ClassIds(df) == { df[i].jm_hash_id_encoded : i \in DOMAIN df }

MessagesOf(df) == { df[i].message : i \in DOMAIN df }

DigestsOf(df) == { hex_dig(df[i]) : i \in DOMAIN df }

\* Every batch of at most MaxRows rows whose set of distinct messages is S.
BatchesOver(S) ==
    { b \in UNION { [1..n -> S] : n \in 1..MaxRows } : Range(b) = S }

\* C1: two rows of the returned frame have the same jm_hash_id_encoded if
\* and only if their messages are identical character for character.
C1_SameClassIffSameMessage ==
    pc = "classified" =>
        \A i, j \in DOMAIN final_dataframe :
            (final_dataframe[i].jm_hash_id_encoded = final_dataframe[j].jm_hash_id_encoded)
                <=> (final_dataframe[i].message = final_dataframe[j].message)

\* C2: for a fixed set of distinct messages, every batch over that set (any
\* order of the rows, any multiplicity of each message) gives each message
\* the class id the processed batch gave it.
C2_ClassIdDependsOnMessageSetOnly ==
    pc = "classified" =>
        \A b \in BatchesOver(MessagesOf(adviser_dataframe)) :
            LET other == create_final_dataframe(FrameOf(b))
            IN  \A i \in DOMAIN other, j \in DOMAIN final_dataframe :
                    other[i].message = final_dataframe[j].message =>
                        other[i].jm_hash_id_encoded = final_dataframe[j].jm_hash_id_encoded

\* A processed batch whose first message recurs after a different one and
\* did not get class 0: order of first appearance and class order differ.
C2_Witness ==
    /\ pc = "classified"
    /\ Len(final_dataframe) = 3
    /\ final_dataframe[1].message = final_dataframe[3].message
    /\ final_dataframe[1].message # final_dataframe[2].message
    /\ final_dataframe[1].jm_hash_id_encoded = 1
    /\ final_dataframe[2].jm_hash_id_encoded = 0

\* C3: for a batch with K distinct messages the set of class ids produced
\* is exactly {0, ..., K-1}.
C3_ClassIdsDenseInDistinctMessages ==
    pc = "classified" =>
        ClassIds(final_dataframe) =
            0..(Cardinality(MessagesOf(adviser_dataframe)) - 1)

\* C4: the class id of a row is the 0-based rank of its hex digest among the
\* distinct hex digests of the batch in lexicographic order; messages
\* A, B, A get [0, 1, 0] when A's digest sorts before B's and [1, 0, 1]
\* otherwise.
C4_ClassIdIsRankOfHexDigest ==
    pc = "classified" =>
        /\ \A i \in DOMAIN final_dataframe :
               final_dataframe[i].jm_hash_id_encoded =
                   Cardinality({ d \in DigestsOf(adviser_dataframe) :
                                   LexLess(d, hex_dig(adviser_dataframe[i])) })
        /\ adviser_dataframe = FrameOf(<< <<65>>, <<66>>, <<65>> >>) =>
               [i \in 1..3 |-> final_dataframe[i].jm_hash_id_encoded] =
                   IF LexLess(sha256[<<65>>], sha256[<<66>>])
                   THEN <<0, 1, 0>> ELSE <<1, 0, 1>>

\* Messages A, B, A classified where B's digest sorts first.
C4_Witness ==
    /\ pc = "classified"
    /\ adviser_dataframe = FrameOf(<< <<65>>, <<66>>, <<65>> >>)
    /\ LexLess(sha256[<<66>>], sha256[<<65>>])
    /\ [i \in 1..3 |-> final_dataframe[i].jm_hash_id_encoded] = <<1, 0, 1>>


(***************************************************************************)
(* Frequency aggregation.  Both aggregators take the frame returned by     *)
(* create_final_dataframe.                                                 *)
(***************************************************************************)
\* Counts the distinct timestamps of a class's rows, not its rows.
count_distinct_dates(df, encoded_id) ==
    Cardinality({ df[i].date : i \in { j \in DOMAIN df : df[j].jm_hash_id_encoded = encoded_id } })

\* Series.value_counts()[encoded_id]
value_counts(df, encoded_id) ==
    Cardinality({ i \in DOMAIN df : df[i].jm_hash_id_encoded = encoded_id })

\* f"type-{encoded_id}"
TypeLabel(encoded_id) == <<"type-", encoded_id>>

\* Python's list indexing: a negative index counts from the end.
PyIndex(list, k) == IF k < 0 THEN list[Len(list) + k + 1] ELSE list[k + 1]

\* dict[key] = value: a new key goes last, an existing key keeps its place.
DictKeysAfterSet(keys, key) ==
    IF key \in Range(keys) THEN keys ELSE Append(keys, key)

begin_of(df) == CHOOSE d \in { df[i].date : i \in DOMAIN df } :
                    \A i \in DOMAIN df : d <= df[i].date

end_of(df) == CHOOSE d \in { df[i].date : i \in DOMAIN df } :
                  \A i \in DOMAIN df : d >= df[i].date

\* timedelta64 / int: the integer quotient (the dividend is never negative).
delta_of(df, n) == (end_of(df) - begin_of(df)) \div n

\* The list after the loop of appends and the two assignments
\* timestamps[0] = begin and timestamps[len(timestamps) - 1] = end.
timestamps_of(df, n) ==
    LET appended == [i \in 1..n |-> begin_of(df) + i * delta_of(df, n)]
        first_set == [appended EXCEPT ![1] = begin_of(df)]
    IN  [first_set EXCEPT ![Len(first_set)] = end_of(df)]

\* adviser_justification_df[(date >= low) & (date <= high)]
Selected(df, low, high) ==
    SelectSeq(df, LAMBDA row : row.date >= low /\ row.date <= high)

\* The inner loop over subset_df: one entry per class id of the subset,
\* with the message of the first row of that class and the class's count
\* in the subset.
BucketOf(subset) ==
    [c \in ClassIds(subset) |->
        [jm_hash_id_encoded |-> TypeLabel(c),
         message |-> subset[CHOOSE i \in DOMAIN subset :
                        /\ subset[i].jm_hash_id_encoded = c
                        /\ \A j \in 1..(i - 1) : subset[j].jm_hash_id_encoded # c].message,
         count |-> value_counts(subset, c)]]

\* The loop for l in range(0, len(timestamps)), from iteration l on.
RECURSIVE AggregateLoop(_, _, _, _)
AggregateLoop(df, timestamps, l, acc) ==
    IF l >= Len(timestamps) THEN acc
    ELSE LET low == PyIndex(timestamps, l - 1)
             high == PyIndex(timestamps, l)
             subset == Selected(df, low, high)
         IN  AggregateLoop(df, timestamps, l + 1,
                [keys |-> DictKeysAfterSet(acc.keys, high),
                 items |-> (high :> BucketOf(subset)) @@ acc.items,
                 subsets |-> (high :> [low |-> low,
                                       index |-> { subset[i].ids : i \in DOMAIN subset }])
                                @@ acc.subsets])

aggregate_data_per_interval(df, n) ==
    AggregateLoop(df, timestamps_of(df, n), 0,
                  [keys |-> <<>>, items |-> <<>>, subsets |-> <<>>])

\* The loop of create_adviser_results_histogram over the rows, from row i
\* on: the first row of each class id adds the class's entry.
RECURSIVE HistogramLoop(_, _, _)
HistogramLoop(plot_df, i, histogram_data) ==
    IF i > Len(plot_df) THEN histogram_data
    ELSE LET encoded_id == plot_df[i].jm_hash_id_encoded
         IN  HistogramLoop(plot_df, i + 1,
                IF \E k \in DOMAIN histogram_data : histogram_data[k].key = encoded_id
                THEN histogram_data
                ELSE Append(histogram_data,
                        [key |-> encoded_id,
                         jm_hash_id_encoded |-> TypeLabel(encoded_id),
                         message |-> plot_df[i].message,
                         type |-> plot_df[i].type,
                         count |-> value_counts(plot_df, encoded_id)]))

RowOrders(table) ==
    { [i \in DOMAIN table |-> table[p[i]]] :
        p \in Injections(DOMAIN table, DOMAIN table) }

\* The table left in the order the entries were added.
insertion_order_only(table) == { table }

\* DataFrame.sort_values(by="count", ascending=False) with the default
\* kind="quicksort", which is not stable: any order of the rows with the
\* counts non-increasing.
sort_values_by_count(table) ==
    { t \in RowOrders(table) :
        \A i, j \in DOMAIN t : i < j => t[i].count >= t[j].count }

\* The histogram of the rows taken from the last to the first.
histogram_of_reversed_rows(plot_df) ==
    sort_values_by_count(
        HistogramLoop([i \in DOMAIN plot_df |-> plot_df[Len(plot_df) + 1 - i]], 1, <<>>))

create_adviser_results_histogram(plot_df) ==
    sort_values_by_count(HistogramLoop(plot_df, 1, <<>>))

(***************************************************************************)
(* The aggregators applied to classified frames.  The frames carry the     *)
(* messages "A" and "B" and timestamps 0..MaxDate; the empty frame is the  *)
(* frame of a run that collected no record.                                *)
(***************************************************************************)
AggregatorMessages == { <<65>>, <<66>> }

DatedFrames ==
    UNION { { [i \in 1..n |-> Row(i, mm[i], dd[i])] :
                mm \in [1..n -> AggregatorMessages], dd \in [1..n -> 0..MaxDate] } :
            n \in 0..MaxRows }

InitAggregator ==
    /\ pc = "classified"
    /\ sha256 = CHOOSE f \in Injections(ByteStrings, HexDigests) : TRUE
    /\ adviser_dataframe \in DatedFrames
    /\ final_dataframe = create_final_dataframe(adviser_dataframe)
    /\ intervals = 0
    /\ aggregated_data = [keys |-> <<>>, items |-> <<>>]
    /\ subset_df = <<>>
    /\ justifications_df = <<>>
    /\ raised = "none"
    /\ HeatmapIdle
    /\ AdviserIdle
    /\ store_calls = {}
    /\ InspectionIdle

\* _aggregate_data_per_interval(final_dataframe, n) returning its dict.
AggregateDataPerInterval(n) ==
    /\ pc = "classified"
    /\ final_dataframe # <<>>
    /\ n >= 1
    /\ LET result == aggregate_data_per_interval(final_dataframe, n)
       IN  /\ aggregated_data' = [keys |-> result.keys, items |-> result.items]
           /\ subset_df' = result.subsets
    /\ intervals' = n
    /\ pc' = "aggregated"
    /\ UNCHANGED <<heatmap_vars, adviser_vars, inspection_vars, sha256, adviser_dataframe, final_dataframe, justifications_df, raised>>

\* intervals <= 0 taken as one interval over a frame that has rows.
AggregateDataPerIntervalClamped(n) ==
    /\ pc = "classified"
    /\ final_dataframe = <<>> \/ n <= 0
    /\ IF final_dataframe = <<>>
       THEN /\ raised' = "ValueError"
            /\ pc' = "raised"
            /\ UNCHANGED <<aggregated_data, subset_df>>
       ELSE /\ LET result == aggregate_data_per_interval(final_dataframe, 1)
               IN  /\ aggregated_data' = [keys |-> result.keys, items |-> result.items]
                   /\ subset_df' = result.subsets
            /\ pc' = "aggregated"
            /\ UNCHANGED raised
    /\ intervals' = n
    /\ UNCHANGED <<heatmap_vars, adviser_vars, inspection_vars, sha256, adviser_dataframe, final_dataframe,
                   justifications_df>>

\* _aggregate_data_per_interval on an empty frame (min() of an empty
\* sequence) or with intervals <= 0 (timestamps stays empty and
\* timestamps[0] = begin fails).
AggregateDataPerIntervalRaises(n) ==
    /\ pc = "classified"
    /\ final_dataframe = <<>> \/ n <= 0
    /\ raised' = IF final_dataframe = <<>> THEN "ValueError" ELSE "IndexError"
    /\ intervals' = n
    /\ pc' = "raised"
    /\ UNCHANGED <<heatmap_vars, adviser_vars, inspection_vars, sha256, adviser_dataframe, final_dataframe, aggregated_data,
                   subset_df, justifications_df>>

\* create_adviser_results_histogram(final_dataframe) returning its table.
CreateAdviserResultsHistogram ==
    /\ pc = "classified"
    /\ final_dataframe # <<>>
    /\ justifications_df' \in create_adviser_results_histogram(final_dataframe)
    /\ pc' = "histogram"
    /\ UNCHANGED <<heatmap_vars, adviser_vars, inspection_vars, sha256, adviser_dataframe, final_dataframe, intervals,
                   aggregated_data, subset_df, raised>>

\* An empty frame answered with an empty table.
CreateAdviserResultsHistogramEmpty ==
    /\ pc = "classified"
    /\ final_dataframe = <<>>
    /\ justifications_df' = <<>>
    /\ pc' = "histogram"
    /\ UNCHANGED <<heatmap_vars, adviser_vars, inspection_vars, sha256, adviser_dataframe, final_dataframe, intervals,
                   aggregated_data, subset_df, raised>>

\* create_adviser_results_histogram on an empty frame: the empty table has
\* no column "count" to sort by.
CreateAdviserResultsHistogramRaises ==
    /\ pc = "classified"
    /\ final_dataframe = <<>>
    /\ raised' = "KeyError"
    /\ pc' = "raised"
    /\ UNCHANGED <<heatmap_vars, adviser_vars, inspection_vars, sha256, adviser_dataframe, final_dataframe, intervals,
                   aggregated_data, subset_df, justifications_df>>

\* The orders in which set(advise_encoded_type) may be iterated.
SetOrders(S) ==
    { order \in [1..Cardinality(S) -> S] : \A i, j \in DOMAIN order : i # j => order[i] # order[j] }

\* Only the buckets that hold the class give a value.
absent_classes_skipped(input_data, order) ==
    [i \in DOMAIN order |->
        LET present == SelectSeq(input_data.keys,
                                 LAMBDA key : order[i] \in DOMAIN input_data.items[key])
        IN  [k \in DOMAIN present |-> input_data.items[present[k]][order[i]].count]]

\* _create_heatmaps_values(input_data, advise_encoded_type), the set of
\* class ids iterated in `order` and input_data.values() in insertion order.
create_heatmaps_values(input_data, order) ==
    [i \in DOMAIN order |->
        [k \in DOMAIN input_data.keys |->
            LET interval_runs == input_data.items[input_data.keys[k]]
            IN  IF order[i] \in DOMAIN interval_runs
                THEN interval_runs[order[i]].count
                ELSE 0]]

\* create_adviser_heatmap's call of _create_heatmaps_values on the
\* aggregation and the frame's column of class ids.
CreateHeatmapsValues ==
    /\ pc = "aggregated"
    /\ \E order \in SetOrders(ClassIds(final_dataframe)) :
          /\ heatmap_types' = order
          /\ heatmaps_values' = create_heatmaps_values(aggregated_data, order)
    /\ pc' = "heatmap"
    /\ UNCHANGED <<df_heatmap, adviser_vars, inspection_vars, sha256, adviser_dataframe,
                   final_dataframe, aggregator_vars>>

\* pd.DataFrame(heatmaps_values, index=[a for a in set(messages)]): row i of
\* the values labelled with the i-th message of the set's iteration order;
\* a ValueError when the numbers of rows and of labels differ.
CreateAdviserHeatmap ==
    /\ pc = "heatmap"
    /\ \E index \in SetOrders(MessagesOf(final_dataframe)) :
          IF Len(index) = Len(heatmaps_values)
          THEN /\ df_heatmap' = [index |-> index, values |-> heatmaps_values]
               /\ pc' = "plotted"
               /\ UNCHANGED raised
          ELSE /\ raised' = "ValueError"
               /\ pc' = "raised"
               /\ UNCHANGED df_heatmap
    /\ UNCHANGED <<heatmap_types, heatmaps_values, adviser_vars, inspection_vars, sha256,
                   adviser_dataframe, final_dataframe, intervals, aggregated_data, subset_df,
                   justifications_df>>

NextAggregator ==
    \/ \E n \in (-1)..MaxIntervals : AggregateDataPerInterval(n)
    \/ \E n \in (-1)..MaxIntervals : AggregateDataPerIntervalRaises(n)
    \/ CreateAdviserResultsHistogram
    \/ CreateAdviserResultsHistogramRaises
    \/ CreateHeatmapsValues
    \/ CreateAdviserHeatmap

SpecAggregator == InitAggregator /\ [][NextAggregator]_vars

(***************************************************************************)
(* create_final_dataframe followed by create_adviser_results_histogram on  *)
(* frames whose rows differ in type and date as well as in message.        *)
(***************************************************************************)
Types == { "INFO", "WARNING" }

TypedFrames ==
    UNION { { [i \in 1..n |-> [Row(i, mm[i], i - 1) EXCEPT !.type = tt[i]]] :
                mm \in [1..n -> Messages], tt \in [1..n -> Types] } :
            n \in 0..MaxRows }

InitHistogram ==
    /\ pc = "input"
    /\ sha256 = CHOOSE f \in Injections(ByteStrings, HexDigests) : TRUE
    /\ adviser_dataframe \in TypedFrames
    /\ final_dataframe = <<>>
    /\ intervals = 0
    /\ aggregated_data = [keys |-> <<>>, items |-> <<>>]
    /\ subset_df = <<>>
    /\ justifications_df = <<>>
    /\ raised = "none"
    /\ HeatmapIdle
    /\ AdviserIdle
    /\ store_calls = {}
    /\ InspectionIdle

NextHistogram ==
    \/ CreateFinalDataframe
    \/ CreateAdviserResultsHistogram
    \/ CreateAdviserResultsHistogramRaises

SpecHistogram == InitHistogram /\ [][NextHistogram]_vars


(***************************************************************************)
(* Properties of the aggregators.                                          *)
(***************************************************************************)
Keys == aggregated_data.keys

\* Row i was selected into the bucket stored under key.
CountedIn(i, key) == final_dataframe[i].ids \in subset_df[key].index

BucketsCounting(i) == { key \in Range(Keys) : CountedIn(i, key) }

\* The count a bucket holds for class c, 0 where the class is absent.
CountOf(bucket, c) == IF c \in DOMAIN bucket THEN bucket[c].count ELSE 0

RECURSIVE SumOverBuckets(_, _, _)
SumOverBuckets(data, c, k) ==
    IF k > Len(data.keys) THEN 0
    ELSE CountOf(data.items[data.keys[k]], c) + SumOverBuckets(data, c, k + 1)

RECURSIVE SumOfCounts(_)
SumOfCounts(table) ==
    IF table = <<>> THEN 0 ELSE Head(table).count + SumOfCounts(Tail(table))

\* C5: every record is counted in exactly one bucket of the time-bucketed
\* aggregation: in no two buckets, and not in none.
C5_EachRecordInExactlyOneBucket ==
    pc = "aggregated" =>
        \A i \in DOMAIN final_dataframe : Cardinality(BucketsCounting(i)) = 1

\* C6: when the timestamps are not all equal, the output has `intervals`
\* buckets, the k-th ending at min + k*(max-min)/intervals and starting at
\* min + (k-1)*(max-min)/intervals.
C6_EqualWidthPartition ==
    pc = "aggregated" /\ begin_of(final_dataframe) < end_of(final_dataframe) =>
        LET begin == begin_of(final_dataframe)
            end == end_of(final_dataframe)
        IN  /\ Len(Keys) = intervals
            /\ \A k \in DOMAIN Keys :
                   /\ intervals * (Keys[k] - begin) = k * (end - begin)
                   /\ intervals * (subset_df[Keys[k]].low - begin) = (k - 1) * (end - begin)

\* C7: for every class, the counts of the class summed over all buckets
\* (0 where the class is absent) equal the number of input records of the
\* class.
C7_BucketCountsSumToClassCount ==
    pc = "aggregated" =>
        \A c \in ClassIds(final_dataframe) :
            SumOverBuckets(aggregated_data, c, 1) = value_counts(final_dataframe, c)

\* C8: a record at the boundary between two consecutive sub-ranges is
\* counted in the earlier one and not in the later one: a sub-range holds
\* the records with low < date <= high, the first also those at its low.
C8_BoundaryRecordInEarlierBucket ==
    pc = "aggregated" =>
        /\ \A k \in 1..(Len(Keys) - 1) : \A i \in DOMAIN final_dataframe :
               final_dataframe[i].date = Keys[k] =>
                   CountedIn(i, Keys[k]) /\ ~CountedIn(i, Keys[k + 1])
        /\ \A k \in DOMAIN Keys : \A i \in DOMAIN final_dataframe :
               CountedIn(i, Keys[k]) <=>
                   /\ final_dataframe[i].date <= Keys[k]
                   /\ \/ final_dataframe[i].date > subset_df[Keys[k]].low
                      \/ k = 1 /\ final_dataframe[i].date = subset_df[Keys[k]].low

\* C9: the first bucket starts at the minimum timestamp, the last bucket
\* ends at the maximum timestamp, and every record is counted in at least
\* one bucket, for every intervals >= 1.
C9_BoundsForcedToMinAndMax ==
    pc = "aggregated" =>
        /\ subset_df[Keys[1]].low = begin_of(final_dataframe)
        /\ Keys[Len(Keys)] = end_of(final_dataframe)
        /\ \A i \in DOMAIN final_dataframe : BucketsCounting(i) # {}

\* C10: the counts of the table returned by
\* create_adviser_results_histogram sum to the number of rows of its input.
C10_HistogramCountsSumToRows ==
    pc = "histogram" => SumOfCounts(justifications_df) = Len(final_dataframe)

\* A histogram of three records in two classes.
C10_Witness ==
    /\ pc = "histogram"
    /\ Len(final_dataframe) = 3
    /\ Len(justifications_df) = 2
    /\ justifications_df[1].count = 2
    /\ justifications_df[2].count = 1


\* The first input row of class c.
FirstRowOf(c) ==
    CHOOSE i \in DOMAIN final_dataframe :
        /\ final_dataframe[i].jm_hash_id_encoded = c
        /\ \A j \in 1..(i - 1) : final_dataframe[j].jm_hash_id_encoded # c

\* The sort left the rows of equal count in the order they were added,
\* which is the order of first appearance of their classes.
TiesKeepInsertionOrder ==
    \A i, j \in DOMAIN justifications_df :
        i < j /\ justifications_df[i].count = justifications_df[j].count =>
            FirstRowOf(justifications_df[i].key) < FirstRowOf(justifications_df[j].key)

\* C11 as stated: the table is ordered by count descending, and rows with
\* equal count are ordered by class id ascending (checked on the outcomes
\* in which the sort kept the rows of equal count in insertion order).
C11_CountDescendingThenClassIdAscending ==
    pc = "histogram" /\ TiesKeepInsertionOrder =>
        \A i, j \in DOMAIN justifications_df : i < j =>
            \/ justifications_df[i].count > justifications_df[j].count
            \/ /\ justifications_df[i].count = justifications_df[j].count
               /\ justifications_df[i].key < justifications_df[j].key

\* C11 amended: the table is ordered by count descending, for every order
\* of the input rows (nothing orders rows of equal count by class id).
C11_CountDescending ==
    pc = "histogram" =>
        \A i, j \in DOMAIN justifications_df : i < j =>
            justifications_df[i].count >= justifications_df[j].count

\* A histogram whose most frequent class is not the class of the first
\* input row: the sort moved it to the front.
C11_Witness ==
    /\ pc = "histogram"
    /\ Len(justifications_df) = 2
    /\ justifications_df[1].count > justifications_df[2].count
    /\ justifications_df[1].key # final_dataframe[1].jm_hash_id_encoded


(***************************************************************************)
(* aggregate_adviser_results.  A document is the JSON mapping the store    *)
(* returns: `keys` and `result_keys` are the keys present in the document  *)
(* and in its "result"; None is Python's None; the value of a key that is  *)
(* absent is never read.                                                   *)
(***************************************************************************)
None == "None"

\* The adviser_version asked for, and another version found in the store.
adviser_version == "0.7.3"

OtherVersion == "0.7.2"

Justification(m, t) == [message |-> m, type |-> t]

ProductEmpty == [justification |-> <<>>]

ProductInfo ==
    [justification |-> << Justification(<<65>>, "INFO"), Justification(<<66>>, "WARNING") >>]

ProductWarning == [justification |-> << Justification(<<66>>, "WARNING") >>]

Report(products) == [is_none |-> FALSE, products |-> products]

\* "report" absent from the result or null: result.get("report") is None.
NoReport == [is_none |-> TRUE, products |-> <<>>]

Document(keys, datetime, version, result_keys, error, error_msg, report) ==
    [keys |-> keys, datetime |-> datetime, analyzer_version |-> version,
     result_keys |-> result_keys, error |-> error, error_msg |-> error_msg,
     report |-> report]

AllKeys == {"metadata", "result"}

ErrorKeys == {"error", "error_msg", "report"}

ReportKeys == {"error", "report"}

FirstOfJanuary == "2020-01-01T00:00:00.000000"

SecondOfJanuary == "2020-01-02T12:30:00.000005"

\* Documents of the requested version that produce a record.
EmittingDocuments ==
    { Document(AllKeys, FirstOfJanuary, adviser_version, ErrorKeys, TRUE, <<256>>, NoReport),
      Document(AllKeys, SecondOfJanuary, adviser_version, ErrorKeys, TRUE, <<>>,
               Report(<<ProductInfo, ProductWarning>>)),
      Document(AllKeys, FirstOfJanuary, adviser_version, ReportKeys, FALSE, <<>>,
               Report(<<ProductInfo, ProductEmpty>>)),
      Document(AllKeys, SecondOfJanuary, adviser_version, ReportKeys, FALSE, <<>>,
               Report(<<ProductInfo, ProductWarning>>)) }

\* Documents of the requested version with no error and no justification.
SilentDocuments ==
    { Document(AllKeys, FirstOfJanuary, adviser_version, ReportKeys, FALSE, <<>>, NoReport),
      Document(AllKeys, SecondOfJanuary, adviser_version, ReportKeys, FALSE, <<>>,
               Report(<<>>)),
      Document(AllKeys, FirstOfJanuary, adviser_version, ReportKeys, FALSE, <<>>,
               Report(<<ProductEmpty>>)) }

\* Documents analysed by another version.
OtherVersionDocuments ==
    { Document(AllKeys, FirstOfJanuary, OtherVersion, ErrorKeys, TRUE, <<65>>, NoReport),
      Document(AllKeys, SecondOfJanuary, OtherVersion, ReportKeys, FALSE, <<>>,
               Report(<<ProductInfo, ProductEmpty>>)) }

\* Documents with a key missing: no "result", no "metadata", no "datetime"
\* in the metadata.
MalformedDocuments ==
    { Document({"metadata"}, FirstOfJanuary, adviser_version, {}, FALSE, <<>>, NoReport),
      Document({"result"}, None, None, ReportKeys, FALSE, <<>>,
               Report(<<ProductInfo, ProductEmpty>>)),
      Document(AllKeys, None, adviser_version, ReportKeys, FALSE, <<>>,
               Report(<<ProductWarning>>)) }

Documents ==
    EmittingDocuments \cup SilentDocuments \cup OtherVersionDocuments \cup MalformedDocuments

\* datetime.strptime(s, "%Y-%m-%dT%H:%M:%S.%f"): year, month, day, hour,
\* minute, second, microsecond.
strptime(s) ==
    CASE s = FirstOfJanuary -> <<2020, 1, 1, 0, 0, 0, 0>>
      [] s = SecondOfJanuary -> <<2020, 1, 2, 12, 30, 0, 5>>

\* pd.to_datetime of a datetime: the Timestamp of the same instant, as the
\* seconds since the first instant of its year and the nanoseconds of the
\* second.
to_datetime(t) ==
    << ((((t[2] - 1) * 31 + (t[3] - 1)) * 24 + t[4]) * 60 + t[5]) * 60 + t[6], t[7] * 1000 >>

\* dict[key] = value on a dict kept as the sequence of its values in
\* insertion order, each value carrying its key as `ids`.
HasKey(dict, ids) == \E k \in DOMAIN dict : dict[k].ids = ids

DictSet(dict, ids, value) ==
    IF HasKey(dict, ids)
    THEN [k \in DOMAIN dict |-> IF dict[k].ids = ids THEN value ELSE dict[k]]
    ELSE Append(dict, value)

DictGet(dict, ids) == dict[CHOOSE k \in DOMAIN dict : dict[k].ids = ids]

JustificationRecord(ids, justification) ==
    [ids |-> ids, justification |-> justification, error |-> FALSE,
     message |-> justification[1].message, type |-> justification[1].type]

\* The loop of extract_justifications_from_products from product k on:
\* every product with a non-empty justification list sets the record.
RECURSIVE ProductsLoop(_, _, _, _)
ProductsLoop(products, k, dict, ids) ==
    IF k > Len(products) THEN dict
    ELSE ProductsLoop(products, k + 1,
            IF products[k].justification # <<>>
            THEN DictSet(dict, ids, JustificationRecord(ids, products[k].justification))
            ELSE dict,
            ids)

\* The record set from the first product with a non-empty justification
\* list only.
first_justified_product_only(products, dict, ids) ==
    IF \A k \in DOMAIN products : products[k].justification = <<>> THEN dict
    ELSE LET first == CHOOSE k \in DOMAIN products :
                        /\ products[k].justification # <<>>
                        /\ \A j \in 1..(k - 1) : products[j].justification = <<>>
         IN  DictSet(dict, ids, JustificationRecord(ids, products[first].justification))

extract_justifications_from_products(products, dict, ids) ==
    IF products = <<>> THEN dict ELSE ProductsLoop(products, 1, dict, ids)

extract_adviser_justifications(report, dict, ids) ==
    IF report.is_none THEN dict
    ELSE extract_justifications_from_products(report.products, dict, ids)

ErrorRecord(ids, result) ==
    [ids |-> ids,
     justification |-> << Justification(result.error_msg, "ERROR") >>,
     error |-> result.error, message |-> result.error_msg, type |-> "ERROR"]

\* The report's products inspected after the error branch as well.
report_inspected_after_error(result, dict, ids) ==
    extract_adviser_justifications(result.report,
        IF result.error THEN DictSet(dict, ids, ErrorRecord(ids, result)) ELSE dict, ids)

\* The branch on result["error"].
record_of_result(result, dict, ids) ==
    IF result.error
    THEN DictSet(dict, ids, ErrorRecord(ids, result))
    ELSE extract_adviser_justifications(result.report, dict, ids)

any_analyzer_version(document) == TRUE

\* analyzer_version == adviser_version
analyzer_version_matches(document) == document.analyzer_version = adviser_version

\* The first lookup of the loop body that fails on the document, "none"
\* when none fails: document["metadata"], document["result"],
\* result["error"], result["error_msg"], and strptime of a missing
\* datetime once the document has a record.
RaisedBy(document, ids, dict_after) ==
    IF "metadata" \notin document.keys \/ "result" \notin document.keys THEN "KeyError"
    ELSE IF analyzer_version_matches(document) /\ "error" \notin document.result_keys
         THEN "KeyError"
    ELSE IF analyzer_version_matches(document) /\ document.error
            /\ "error_msg" \notin document.result_keys
         THEN "KeyError"
    ELSE IF HasKey(dict_after, ids) /\ document.datetime = None
         THEN "TypeError"
    ELSE "none"

\* The record of ids completed with the run's datetime and version.
WithDatetime(dict, ids, document) ==
    LET r == DictGet(dict, ids)
    IN  DictSet(dict, ids,
            [ids |-> ids, justification |-> r.justification, error |-> r.error,
             message |-> r.message, type |-> r.type,
             datetime |-> strptime(document.datetime),
             analyzer_version |-> document.analyzer_version])

\* adviser_dict after the version branch of one iteration.
AfterVersionBranch(document, dict, ids) ==
    IF analyzer_version_matches(document) THEN record_of_result(document, dict, ids) ELSE dict

\* adviser_dict after one whole iteration of the loop.
AfterIteration(document, dict, ids) ==
    LET d == AfterVersionBranch(document, dict, ids)
    IN  IF HasKey(d, ids) THEN WithDatetime(d, ids, document) ELSE d

\* One row per key of the dict, in insertion order, with the column "date".
create_adviser_dataframe(adviser_data) ==
    [k \in DOMAIN adviser_data |->
        [ids |-> adviser_data[k].ids,
         datetime |-> adviser_data[k].datetime,
         analyzer_version |-> adviser_data[k].analyzer_version,
         error |-> adviser_data[k].error,
         justification |-> adviser_data[k].justification,
         message |-> adviser_data[k].message,
         type |-> adviser_data[k].type,
         date |-> to_datetime(adviser_data[k].datetime)]]

\* The limit applied whatever limit_results is.
limit_always_applied(limit, counter, maximum) == counter > maximum

\* if limit_results: if current_a_counter > max_ids
limit_reached(limit, counter, maximum) == limit /\ counter > maximum

\* The listings of the store: document ids are the positions of the listing.
Listings == UNION { [1..n -> Documents] : n \in 0..MaxDocs }

dedup_vars == <<sha256, adviser_dataframe, final_dataframe>>

InitAdviser ==
    /\ pc = "loop"
    /\ sha256 = CHOOSE f \in Injections(ByteStrings, HexDigests) : TRUE
    /\ adviser_dataframe = <<>>
    /\ final_dataframe = <<>>
    /\ intervals = 0
    /\ aggregated_data = [keys |-> <<>>, items |-> <<>>]
    /\ subset_df = <<>>
    /\ justifications_df = <<>>
    /\ raised = "none"
    /\ HeatmapIdle
    /\ InspectionIdle
    /\ store_calls = { "connect", "get_document_listing" }
    /\ store \in Listings
    /\ limit_results \in BOOLEAN
    /\ max_ids \in 0..MaxIds
    /\ processed = 0
    /\ retrieved = <<>>
    /\ current_a_counter = 1
    /\ adviser_dict = <<>>
    /\ adviser_df = <<>>

\* One iteration of the loop over adviser_ids that raises nothing; it
\* returns the data frame when the limit on the counter is passed.
ProcessDocument ==
    /\ pc = "loop"
    /\ processed < Len(store)
    /\ LET ids == processed + 1
           document == store[ids]
       IN  /\ RaisedBy(document, ids, AfterVersionBranch(document, adviser_dict, ids)) = "none"
           /\ retrieved' = Append(retrieved, ids)
           /\ adviser_dict' = AfterIteration(document, adviser_dict, ids)
    /\ store_calls' = store_calls \cup { "retrieve_document" }
    /\ processed' = processed + 1
    /\ current_a_counter' = current_a_counter + 1
    /\ IF limit_reached(limit_results, current_a_counter', max_ids)
       THEN /\ adviser_df' = create_adviser_dataframe(adviser_dict')
            /\ pc' = "returned"
       ELSE /\ pc' = "loop"
            /\ UNCHANGED adviser_df
    /\ UNCHANGED <<dedup_vars, aggregator_vars, heatmap_vars, inspection_run_vars, store,
                   limit_results, max_ids>>

\* One iteration of the loop in which a lookup raises: the exception leaves
\* aggregate_adviser_results, which returns nothing.
ProcessDocumentRaises ==
    /\ pc = "loop"
    /\ processed < Len(store)
    /\ LET ids == processed + 1
           document == store[ids]
           exception == RaisedBy(document, ids, AfterVersionBranch(document, adviser_dict, ids))
       IN  /\ exception # "none"
           /\ raised' = exception
           /\ retrieved' = Append(retrieved, ids)
           /\ adviser_dict' = IF exception = "TypeError"
                              THEN AfterVersionBranch(document, adviser_dict, ids)
                              ELSE adviser_dict
    /\ store_calls' = store_calls \cup { "retrieve_document" }
    /\ pc' = "raised"
    /\ UNCHANGED <<dedup_vars, heatmap_vars, inspection_run_vars, intervals, aggregated_data, subset_df,
                   justifications_df, store, limit_results, max_ids, processed,
                   current_a_counter, adviser_df>>

\* The return after the loop has gone through the whole listing.
ReturnAfterLoop ==
    /\ pc = "loop"
    /\ processed = Len(store)
    /\ adviser_df' = create_adviser_dataframe(adviser_dict)
    /\ pc' = "returned"
    /\ UNCHANGED <<dedup_vars, aggregator_vars, heatmap_vars, inspection_vars, store,
                   limit_results, max_ids,
                   processed, retrieved, current_a_counter, adviser_dict>>

NextAdviser ==
    \/ ProcessDocument
    \/ ProcessDocumentRaises
    \/ ReturnAfterLoop

SpecAdviser == InitAdviser /\ [][NextAdviser]_vars

\* The calls with limit_results left at its default, False, and the
\* max_ids that would end a limited run soonest.
InitAdviserUnlimited == InitAdviser /\ limit_results = FALSE /\ max_ids = 0

\* The interpreter keeps running the call until it returns or raises.
SpecAdviserFair == InitAdviserUnlimited /\ [][NextAdviser]_vars /\ WF_vars(NextAdviser)

(***************************************************************************)
(* Properties of aggregate_adviser_results.                                *)
(***************************************************************************)
Retrieved == Range(retrieved)

RecordsOf(ids) == { k \in DOMAIN adviser_df : adviser_df[k].ids = ids }

HasJustifiedProduct(document) ==
    /\ ~document.report.is_none
    /\ \E k \in DOMAIN document.report.products :
            document.report.products[k].justification # <<>>

FirstJustifiedProduct(products) ==
    products[CHOOSE k \in DOMAIN products :
        /\ products[k].justification # <<>>
        /\ \A j \in 1..(k - 1) : products[j].justification = <<>>]

OneMalformedRestEmitting ==
    \E m \in DOMAIN store :
        /\ store[m] \in MalformedDocuments
        /\ \A k \in DOMAIN store \ {m} : store[k] \in EmittingDocuments

\* C12: a run without limit over a listing with one malformed document,
\* all others yielding a record, skips the malformed one and returns one
\* record for each of the others.
C12_MalformedDocumentSkipped ==
    pc # "loop" /\ ~limit_results /\ OneMalformedRestEmitting =>
        pc = "returned" /\ Len(adviser_df) = Len(store) - 1

\* C13: when the run returns, every retrieved document of the requested
\* version whose result.error is true has a record with error = TRUE,
\* message = error_msg and type = "ERROR", whatever its report holds.
C13_ErrorDocumentEmitsErrorRecord ==
    pc = "returned" =>
        \A ids \in Retrieved :
            store[ids].analyzer_version = adviser_version /\ store[ids].error =>
                \E k \in RecordsOf(ids) :
                    /\ adviser_df[k].error = TRUE
                    /\ adviser_df[k].message = store[ids].error_msg
                    /\ adviser_df[k].type = "ERROR"

C13_Witness ==
    /\ pc = "returned"
    /\ \E ids \in Retrieved :
        /\ store[ids].analyzer_version = adviser_version
        /\ store[ids].error
        /\ HasJustifiedProduct(store[ids])
        /\ RecordsOf(ids) # {}

\* C14: when the run returns, the record of a retrieved non-error document
\* of the requested version with a justified product has error = FALSE and
\* the message and type of the first entry of the justification list of the
\* first product whose justification list is non-empty.
C14_FirstJustifiedProductWins ==
    pc = "returned" =>
        \A ids \in Retrieved :
            /\ store[ids].analyzer_version = adviser_version
            /\ ~store[ids].error
            /\ HasJustifiedProduct(store[ids])
            => \A k \in RecordsOf(ids) :
                LET first == FirstJustifiedProduct(store[ids].report.products).justification[1]
                IN  /\ adviser_df[k].error = FALSE
                    /\ adviser_df[k].message = first.message
                    /\ adviser_df[k].type = first.type

Extractable(document) == document.error \/ HasJustifiedProduct(document)

\* C15 as stated: when the run returns, each retrieved document has exactly
\* one record if it is an error document or has a justified product, and
\* none otherwise.
C15_OneRecordPerExtractableDocument ==
    pc = "returned" =>
        \A ids \in Retrieved :
            Cardinality(RecordsOf(ids)) = IF Extractable(store[ids]) THEN 1 ELSE 0

\* C15: when the run returns, each retrieved document has exactly one record
\* if it is of the requested version and is an error document or has a
\* justified product, and none otherwise; no other id has a record.
C15_OneRecordPerExtractableDocumentOfVersion ==
    pc = "returned" =>
        /\ \A ids \in Retrieved :
            Cardinality(RecordsOf(ids)) =
                IF store[ids].analyzer_version = adviser_version /\ Extractable(store[ids])
                THEN 1 ELSE 0
        /\ \A k \in DOMAIN adviser_df : adviser_df[k].ids \in Retrieved

C15_Witness ==
    /\ pc = "returned"
    /\ \E i, j, k \in Retrieved :
        /\ store[i].analyzer_version # adviser_version /\ Extractable(store[i])
        /\ store[j].analyzer_version = adviser_version /\ ~Extractable(store[j])
        /\ store[k].analyzer_version = adviser_version /\ Extractable(store[k])
        /\ RecordsOf(k) # {}

\* C20: with limit_results true, at most max_ids documents are retrieved.
C20_AtMostMaxIdsRetrieved ==
    limit_results => Len(retrieved) <= max_ids

(***************************************************************************)
(* Failures of the aggregators and the heatmap's values.                   *)
(***************************************************************************)
\* A step that is the call _aggregate_data_per_interval(final_dataframe, n).
IntervalsCalled(n) == AggregateDataPerInterval(n) \/ AggregateDataPerIntervalRaises(n)

RowsIn(key, c) ==
    { i \in DOMAIN final_dataframe :
        CountedIn(i, key) /\ final_dataframe[i].jm_hash_id_encoded = c }

\* C18: the heatmap's values hold one row for every class id of the frame,
\* and every row holds one value for every bucket: the number of the
\* bucket's rows of the class, 0 when the bucket has none.
C18_OneValuePerClassAndBucket ==
    pc = "heatmap" =>
        /\ Len(heatmaps_values) = Cardinality(ClassIds(final_dataframe))
        /\ Range(heatmap_types) = ClassIds(final_dataframe)
        /\ \A i \in DOMAIN heatmaps_values :
            /\ Len(heatmaps_values[i]) = Len(Keys)
            /\ \A k \in DOMAIN Keys :
                heatmaps_values[i][k] = Cardinality(RowsIn(Keys[k], heatmap_types[i]))

C18_Witness ==
    /\ pc = "heatmap"
    /\ Len(heatmaps_values) = 2
    /\ Len(Keys) >= 2
    /\ \E i \in DOMAIN heatmaps_values : \E j, k \in DOMAIN Keys :
        heatmaps_values[i][j] = 0 /\ heatmaps_values[i][k] > 0

\* C19: in a classified batch the rows with the empty message share one
\* class id, and no row with a non-empty message has it.
C19_EmptyMessageHasOwnClass ==
    pc = "classified" =>
        \A i, j \in DOMAIN final_dataframe :
            final_dataframe[i].message = <<>> =>
                ((final_dataframe[i].jm_hash_id_encoded = final_dataframe[j].jm_hash_id_encoded)
                    <=> final_dataframe[j].message = <<>>)

C19_Witness ==
    /\ pc = "classified"
    /\ \E i, j, k \in DOMAIN final_dataframe :
        /\ i # j
        /\ final_dataframe[i].message = <<>>
        /\ final_dataframe[j].message = <<>>
        /\ final_dataframe[k].message # <<>>
        /\ final_dataframe[i].jm_hash_id_encoded = final_dataframe[j].jm_hash_id_encoded
        /\ final_dataframe[k].jm_hash_id_encoded # final_dataframe[i].jm_hash_id_encoded

LastJustifiedProduct(products) ==
    products[CHOOSE k \in DOMAIN products :
        /\ products[k].justification # <<>>
        /\ \A j \in (k + 1)..Len(products) : products[j].justification = <<>>]

\* C23: when the run returns, a retrieved non-error document of the
\* requested version with a justified product has exactly one record, with
\* the message and type of the first entry of the justification list of
\* the last product whose justification list is non-empty.
C23_LastJustifiedProductWins ==
    pc = "returned" =>
        \A ids \in Retrieved :
            /\ store[ids].analyzer_version = adviser_version
            /\ ~store[ids].error
            /\ HasJustifiedProduct(store[ids])
            => /\ Cardinality(RecordsOf(ids)) = 1
               /\ \A k \in RecordsOf(ids) :
                    LET last == LastJustifiedProduct(store[ids].report.products).justification
                    IN  /\ adviser_df[k].error = FALSE
                        /\ adviser_df[k].justification = last
                        /\ adviser_df[k].message = last[1].message
                        /\ adviser_df[k].type = last[1].type

\* A returned run with a record from the second of two justified products,
\* and a record left alone by a trailing product without justifications.
C23_Witness ==
    /\ pc = "returned"
    /\ \E i, j \in Retrieved :
        /\ store[i].report.products = <<ProductInfo, ProductWarning>>
        /\ store[j].report.products = <<ProductInfo, ProductEmpty>>
        /\ \E k \in RecordsOf(i) : adviser_df[k].type = "WARNING"
        /\ \E k \in RecordsOf(j) : adviser_df[k].type = "INFO"

\* C25: when the run returns, no retrieved document of another analyzer
\* version has a record, and every record has the requested version and the
\* datetime of its own document.
C25_OnlyRequestedVersionRecorded ==
    pc = "returned" =>
        /\ \A ids \in Retrieved :
            store[ids].analyzer_version # adviser_version => RecordsOf(ids) = {}
        /\ \A k \in DOMAIN adviser_df :
            /\ adviser_df[k].analyzer_version = adviser_version
            /\ adviser_df[k].datetime = strptime(store[adviser_df[k].ids].datetime)

C25_Witness ==
    /\ pc = "returned"
    /\ \E i, j, k \in Retrieved :
        /\ store[i].analyzer_version # adviser_version /\ store[i].error
        /\ store[j].analyzer_version # adviser_version /\ HasJustifiedProduct(store[j])
        /\ store[k].analyzer_version = adviser_version
        /\ store[k].datetime # store[i].datetime
        /\ \E r \in RecordsOf(k) : adviser_df[r].datetime = strptime(store[k].datetime)

NoMalformedDocument == \A k \in DOMAIN store : store[k] \notin MalformedDocuments

RecordedIds == { ids \in DOMAIN store :
                    store[ids].analyzer_version = adviser_version /\ Extractable(store[ids]) }

\* C28: a run without limit over a listing without malformed document ends
\* by returning, having retrieved every id of the listing once, in listing
\* order, with the records of all of them in the table.
C28_WholeListingRetrievedThenReturned ==
    (pc = "loop" /\ ~limit_results /\ NoMalformedDocument)
        ~> (/\ pc = "returned"
            /\ retrieved = [i \in 1..Len(store) |-> i]
            /\ { adviser_df[k].ids : k \in DOMAIN adviser_df } = RecordedIds
            /\ Len(adviser_df) = Cardinality(RecordedIds))

C28_Witness ==
    /\ pc = "returned"
    /\ ~limit_results
    /\ current_a_counter = Len(store) + 1
    /\ NoMalformedDocument
    /\ Len(store) = MaxDocs
    /\ Len(retrieved) = MaxDocs
    /\ max_ids < Len(store)
    /\ Len(adviser_df) >= 2

(***************************************************************************)
(* The histogram's rows, the heatmap's labels, the frame returned by       *)
(* create_final_dataframe.                                                 *)
(***************************************************************************)
RowsOfClass(c) == { i \in DOMAIN final_dataframe : final_dataframe[i].jm_hash_id_encoded = c }

\* C24: the histogram has one row per distinct class id of the input; the
\* row holds the number of records of the class, the label type-<class id>
\* and the message and type of the first input record of the class.
C24_OneRowPerClassFromFirstRecord ==
    pc = "histogram" =>
        /\ Len(justifications_df) = Cardinality(ClassIds(final_dataframe))
        /\ { justifications_df[k].key : k \in DOMAIN justifications_df }
                = ClassIds(final_dataframe)
        /\ \A k \in DOMAIN justifications_df :
            LET c == justifications_df[k].key
                first == final_dataframe[FirstRowOf(c)]
            IN  /\ justifications_df[k].count = Cardinality(RowsOfClass(c))
                /\ justifications_df[k].jm_hash_id_encoded = <<"type-", c>>
                /\ justifications_df[k].message = first.message
                /\ justifications_df[k].type = first.type

\* A histogram with a class of two records that differ in type and in
\* message, and a second class.
C24_Witness ==
    /\ pc = "histogram"
    /\ Len(justifications_df) = 2
    /\ \E i, j \in DOMAIN final_dataframe :
        /\ i < j
        /\ final_dataframe[i].jm_hash_id_encoded = final_dataframe[j].jm_hash_id_encoded
        /\ final_dataframe[i].type # final_dataframe[j].type
        /\ final_dataframe[i].message # final_dataframe[j].message
        /\ justifications_df[1].count = 2
        /\ justifications_df[1].type = final_dataframe[i].type

\* The class id create_final_dataframe gave to message m.
ClassOf(m) ==
    final_dataframe[CHOOSE i \in DOMAIN final_dataframe :
                        final_dataframe[i].message = m].jm_hash_id_encoded

\* C26: in the heatmap's table the row labelled with message M holds, for
\* every bucket, the count of the class id of M.
C26_RowLabelledWithItsMessage ==
    pc = "plotted" =>
        \A i \in DOMAIN df_heatmap.index : \A k \in DOMAIN Keys :
            df_heatmap.values[i][k] = Cardinality(RowsIn(Keys[k], ClassOf(df_heatmap.index[i])))

\* C27: create_final_dataframe leaves its input as it was and returns one
\* row per input row, in the same order and with the same index and values
\* in the input's columns, plus the one column jm_hash_id_encoded holding a
\* class id.
C27_InputColumnsKeptOneColumnAdded ==
    [][pc = "input" =>
        /\ adviser_dataframe' = adviser_dataframe
        /\ Len(final_dataframe') = Len(adviser_dataframe)
        /\ \A i \in DOMAIN adviser_dataframe :
            /\ DOMAIN final_dataframe'[i] = DOMAIN adviser_dataframe[i] \cup {"jm_hash_id_encoded"}
            /\ \A column \in DOMAIN adviser_dataframe[i] :
                    final_dataframe'[i][column] = adviser_dataframe[i][column]
            /\ final_dataframe'[i].jm_hash_id_encoded \in Nat]_vars

C27_Witness ==
    /\ pc = "classified"
    /\ Len(final_dataframe) = 3
    /\ final_dataframe[1].type # final_dataframe[2].type
    /\ final_dataframe[1].message = final_dataframe[3].message
    /\ final_dataframe[1].jm_hash_id_encoded = 1
    /\ final_dataframe[2].jm_hash_id_encoded = 0

(***************************************************************************)
(* inspection.py: filter_inspection_ids, then                              *)
(* aggregate_inspection_results_per_identifier on the ids it returned,     *)
(* then process_inspection_results on the documents of one identifier.     *)
(* The documents carry the columns the functions read, flattened the way   *)
(* json_normalize(sep="__") names them.                                    *)
(***************************************************************************)
Identifiers == { "batch-a", "batch-b" }

InspectionDocument(ids, identifier) ==
    [inspection_id |-> ids,
     identifier |-> identifier,
     build_log |-> "log",
     specification__python__version |-> "3.6",
     status__job__started_at |-> ids,
     status__job__finished_at |-> 2 * ids + 1,
     status__build__started_at |-> ids \div 2,
     status__build__finished_at |-> ids + 2]

InspectionStores ==
    UNION { { [i \in 1..n |-> InspectionDocument(i, bb[i])] : bb \in [1..n -> Identifiers] } :
            n \in 0..MaxDocs }

\* The lists of distinct identifiers a caller passes.
IdentifierLists ==
    { l \in UNION { [1..n -> Identifiers] : n \in 1..Cardinality(Identifiers) } :
        \A i, j \in DOMAIN l : i # j => l[i] # l[j] }

\* inspection_store.filter_document_ids(inspection_identifiers): for every
\* identifier asked for, the ids of the store's documents of that identifier.
filter_document_ids(documents, identifiers) ==
    [k \in DOMAIN identifiers |->
        [identifier |-> identifiers[k],
         ids |-> SelectSeq([i \in DOMAIN documents |-> i],
                           LAMBDA i : documents[i].identifier = identifiers[k])]]

\* dict[identifier] on a dict kept as the sequence of its entries.
HasIdentifier(dict, identifier) == \E k \in DOMAIN dict : dict[k].identifier = identifier

EntryOf(dict, identifier) == dict[CHOOSE k \in DOMAIN dict : dict[k].identifier = identifier]

InitInspection ==
    /\ pc = "filter"
    /\ sha256 = CHOOSE f \in Injections(ByteStrings, HexDigests) : TRUE
    /\ adviser_dataframe = <<>>
    /\ final_dataframe = <<>>
    /\ intervals = 0
    /\ aggregated_data = [keys |-> <<>>, items |-> <<>>]
    /\ subset_df = <<>>
    /\ justifications_df = <<>>
    /\ raised = "none"
    /\ HeatmapIdle
    /\ store = <<>>
    /\ limit_results \in BOOLEAN
    /\ max_ids \in 0..MaxIds
    /\ processed = 0
    /\ retrieved = <<>>
    /\ current_a_counter = 0
    /\ adviser_dict = <<>>
    /\ adviser_df = <<>>
    /\ store_calls = {}
    /\ inspection_store \in InspectionStores
    /\ inspection_identifiers \in IdentifierLists
    /\ inspection_ids = <<>>
    /\ identifier_inspection \in IdentifierLists
    /\ identifier_index = 0
    /\ inspection_results_dict = <<>>
    /\ inspection_df = NothingReturned

other_vars == <<dedup_vars, aggregator_vars, heatmap_vars, adviser_vars>>

\* filter_inspection_ids(inspection_identifiers)
FilterInspectionIds ==
    /\ pc = "filter"
    /\ store_calls' = store_calls \cup { "connect", "filter_document_ids" }
    /\ inspection_ids' = filter_document_ids(inspection_store, inspection_identifiers)
    /\ pc' = "filtered"
    /\ UNCHANGED <<other_vars, inspection_store, inspection_identifiers, identifier_inspection,
                   identifier_index, inspection_results_dict, inspection_df>>

\* aggregate_inspection_results_per_identifier(inspection_ids,
\* identifier_inspection, limit_results, max_ids) up to its outer loop.
AggregateInspectionResults ==
    /\ pc = "filtered"
    /\ store_calls' = store_calls \cup { "connect" }
    /\ pc' = "identifiers"
    /\ UNCHANGED <<other_vars, inspection_run_vars>>

\* The outer loop of aggregate_inspection_results_per_identifier reaching
\* its next identifier: inspection_results_dict[identifier] = [].
StartIdentifier ==
    /\ pc = "identifiers"
    /\ identifier_index < Len(identifier_inspection)
    /\ LET identifier == identifier_inspection[identifier_index + 1]
       IN  /\ HasIdentifier(inspection_ids, identifier)
           /\ inspection_results_dict' =
                Append(inspection_results_dict, [identifier |-> identifier, documents |-> <<>>])
    /\ identifier_index' = identifier_index + 1
    /\ pc' = "documents"
    /\ UNCHANGED <<other_vars, store_calls, inspection_store, inspection_identifiers, inspection_ids,
                   identifier_inspection, inspection_df>>

\* inspection_ids[identifier] for an identifier the dict does not hold.
StartIdentifierRaises ==
    /\ pc = "identifiers"
    /\ identifier_index < Len(identifier_inspection)
    /\ LET identifier == identifier_inspection[identifier_index + 1]
       IN  /\ ~HasIdentifier(inspection_ids, identifier)
           /\ inspection_results_dict' =
                Append(inspection_results_dict, [identifier |-> identifier, documents |-> <<>>])
    /\ identifier_index' = identifier_index + 1
    /\ raised' = "KeyError"
    /\ pc' = "raised"
    /\ UNCHANGED <<dedup_vars, heatmap_vars, adviser_vars, store_calls, intervals, aggregated_data, subset_df,
                   justifications_df, inspection_store, inspection_identifiers, inspection_ids,
                   identifier_inspection, inspection_df>>

\* The entry of the identifier the outer loop is at.
CurrentEntry == inspection_results_dict[Len(inspection_results_dict)]

CurrentIds == EntryOf(inspection_ids, CurrentEntry.identifier).ids

\* The stored document changed in place.
build_log_cleared_in_store(documents, ids) ==
    [documents EXCEPT ![ids].build_log = "None"]

\* document["build_log"] = None acts on the retrieved copy only.
store_after_retrieval(documents, ids) == documents

\* if limit_results: if n + 1 == max_ids: break
break_reached(limit, n, maximum) == limit /\ n + 1 = maximum

\* One iteration of the inner loop: retrieve the next document of the
\* identifier, clear its build_log, append it, and break at the limit.
RetrieveInspectionDocument ==
    /\ pc = "documents"
    /\ Len(CurrentEntry.documents) < Len(CurrentIds)
    /\ LET n == Len(CurrentEntry.documents)
           ids == CurrentIds[n + 1]
           document == [inspection_store[ids] EXCEPT !.build_log = "None"]
       IN  /\ inspection_results_dict' =
                [inspection_results_dict EXCEPT
                    ![Len(inspection_results_dict)].documents = Append(@, document)]
           /\ inspection_store' = store_after_retrieval(inspection_store, ids)
           /\ pc' = IF break_reached(limit_results, n, max_ids) THEN "identifiers"
                    ELSE "documents"
    /\ store_calls' = store_calls \cup { "retrieve_document" }
    /\ UNCHANGED <<other_vars, inspection_identifiers, inspection_ids, identifier_inspection,
                   identifier_index, inspection_df>>

\* The inner loop at the end of the identifier's ids.
EndOfIdentifier ==
    /\ pc = "documents"
    /\ Len(CurrentEntry.documents) = Len(CurrentIds)
    /\ pc' = "identifiers"
    /\ UNCHANGED <<other_vars, inspection_vars>>

\* return inspection_results_dict
ReturnInspectionResults ==
    /\ pc = "identifiers"
    /\ identifier_index = Len(identifier_inspection)
    /\ pc' = "inspections"
    /\ UNCHANGED <<other_vars, inspection_vars>>

\* pd.to_datetime of a number of nanoseconds, and the difference of two
\* Timestamps.
Timestamp(v) == [ns |-> v]

Timedelta(finished, started) == [delta |-> finished.ns - started.ns]

\* The columns matching "created|started_at|finished_at".
DatetimeColumns ==
    { "status__job__started_at", "status__job__finished_at",
      "status__build__started_at", "status__build__finished_at" }

\* The columns whose name holds "version", which are never rejected.
VersionColumns == { "specification__python__version" }

\* The columns the profile rejects: at most one distinct value and a type
\* other than UNSUPPORTED; whether build_log, the column holding only None,
\* is of a supported type is the profiler's choice, `null_supported`.
Rejected(rows, null_supported) ==
    { column \in DOMAIN rows[1] \ VersionColumns :
        /\ Cardinality({ rows[i][column] : i \in DOMAIN rows }) <= 1
        /\ (column = "build_log" /\ \A i \in DOMAIN rows : rows[i].build_log = "None")
                => null_supported }

\* process_inspection_results(inspection_results) with its defaults: what
\* it returns ("ValueError" is the exception returned as a value), or the
\* exception it raises.
process_inspection_results(inspection_results, null_supported) ==
    IF inspection_results = <<>>
    THEN [returned |-> "ValueError", rows |-> <<>>, raises |-> "none"]
    ELSE IF Len(inspection_results) <= 1
    THEN [returned |-> "DataFrame", rows |-> inspection_results, raises |-> "none"]
    ELSE LET kept == DOMAIN inspection_results[1] \ Rejected(inspection_results, null_supported)
             Value(row, column) ==
                IF column \in DatetimeColumns THEN Timestamp(row[column]) ELSE row[column]
             Duration(row, column) ==
                IF column = "status__job__duration"
                THEN Timedelta(Timestamp(row.status__job__finished_at),
                               Timestamp(row.status__job__started_at))
                ELSE Timedelta(Timestamp(row.status__build__finished_at),
                               Timestamp(row.status__build__started_at))
             durations == { "status__job__duration", "status__build__duration" }
         IN  IF DatetimeColumns \subseteq kept
             THEN [returned |-> "DataFrame",
                   rows |-> [i \in DOMAIN inspection_results |->
                                [column \in kept \cup durations |->
                                    IF column \in durations
                                    THEN Duration(inspection_results[i], column)
                                    ELSE Value(inspection_results[i], column)]],
                   raises |-> "none"]
             ELSE [returned |-> "nothing", rows |-> <<>>, raises |-> "UndefinedVariableError"]

\* process_inspection_results on the documents collected for the k-th
\* identifier.
ProcessInspectionResults(k) ==
    /\ pc = "inspections"
    /\ \E null_supported \in BOOLEAN :
       LET result == process_inspection_results(inspection_results_dict[k].documents,
                                                null_supported)
       IN  IF result.raises = "none"
           THEN /\ inspection_df' = [returned |-> result.returned, rows |-> result.rows]
                /\ pc' = "processed"
                /\ UNCHANGED raised
           ELSE /\ raised' = result.raises
                /\ pc' = "raised"
                /\ UNCHANGED inspection_df
    /\ UNCHANGED <<dedup_vars, heatmap_vars, adviser_vars, intervals, aggregated_data, subset_df,
                   justifications_df, store_calls, inspection_store, inspection_identifiers,
                   inspection_ids, identifier_inspection, identifier_index,
                   inspection_results_dict>>

NextInspection ==
    \/ FilterInspectionIds
    \/ AggregateInspectionResults
    \/ StartIdentifier
    \/ StartIdentifierRaises
    \/ RetrieveInspectionDocument
    \/ EndOfIdentifier
    \/ ReturnInspectionResults
    \/ \E k \in DOMAIN inspection_results_dict : ProcessInspectionResults(k)

SpecInspection == InitInspection /\ [][NextInspection]_vars

(***************************************************************************)
(* The runs that use a result store: one of aggregate_adviser_results, or  *)
(* one of the inspection functions.                                        *)
(***************************************************************************)
InitStoreUse == InitAdviser \/ InitInspection

NextStoreUse == NextAdviser \/ NextInspection

SpecStoreUse == InitStoreUse /\ [][NextStoreUse]_vars

\* C21: with limit_results true, the returned dict holds at most max_ids
\* documents for every identifier.
C21_AtMostMaxIdsPerIdentifier ==
    pc = "inspections" /\ limit_results =>
        \A k \in DOMAIN inspection_results_dict :
            Len(inspection_results_dict[k].documents) <= max_ids

\* The read operations of the result stores.
ReadOperations ==
    { "connect", "get_document_listing", "retrieve_document", "filter_document_ids" }

\* C22: the runs invoke only connect, the document listing, the retrieval
\* of a document and the filtering of ids on a store, and no step changes
\* the content of a store.
C22_StoresOnlyRead ==
    /\ [](store_calls \subseteq ReadOperations)
    /\ [][store' = store /\ inspection_store' = inspection_store]_vars

\* Returned inspection results whose build_log was cleared while the stored
\* documents kept theirs.
C22_Witness ==
    /\ pc = "inspections"
    /\ store_calls = { "connect", "filter_document_ids", "retrieve_document" }
    /\ \E k \in DOMAIN inspection_results_dict :
        \E d \in DOMAIN inspection_results_dict[k].documents :
            LET document == inspection_results_dict[k].documents[d]
            IN  /\ document.build_log = "None"
                /\ inspection_store[document.inspection_id].build_log = "log"

\* C29: process_inspection_results on an empty collection raises ValueError
\* and returns nothing.
C29_EmptyResultsRaiseValueError ==
    [][\A k \in DOMAIN inspection_results_dict :
        ProcessInspectionResults(k) /\ inspection_results_dict[k].documents = <<>> =>
            /\ pc' = "raised"
            /\ raised' = "ValueError"
            /\ inspection_df' = NothingReturned]_vars
=============================================================================
